---- MODULE Spec2Model ----
(***************************************************************************)
(* A model of ersa's GraphQL-over-HTTP request handler:                    *)
(*   createRequestHandler (src/src/createHandler.js) and                   *)
(*   parseParams          (src/unnamed/part_002).                          *)
(* One handler is built from a schema and a configuration; every           *)
(* invocation of it takes a request and an optional per-call context       *)
(* through preflight, method check, parameter resolution, parse, the GET   *)
(* mutation guard, validate, execute, extensions and the response.         *)
(***************************************************************************)
EXTENDS Integers, Sequences, FiniteSets, TLC

VARIABLES
  options,      \* the options the full createRequestHandler was called with,
                \* undefined when the lean one was called directly
  cfg,          \* the options the lean createRequestHandler was called with
  baseHeaders,  \* the headers object built once at construction
  h,            \* the handler invocations: h[i] is invocation i's state
  hd            \* a call of hashDocument: its position, out, i and hash

vars == <<options, cfg, baseHeaders, h, hd>>

(***************************************************************************)
(* hashDocument (src/src/hashDocument.js:3-15)                             *)
(***************************************************************************)
\* the number of bytes of a SHA-256 digest
DigestLen == 32

\* the strides and the first bytes of the digests the model draws
MaxStride == 3
FirstBytes == {0, 9, 15, 16, 255}

\* what crypto.subtle.digest may resolve with: 32 bytes, among them bytes
\* below 16, bytes from 16 on, all bytes 0 and all bytes 255
Digests ==
  {[k \in 1..DigestLen |-> (b + a * (k - 1) * 37) % 256] : a \in 0..MaxStride, b \in FirstBytes}

\* the documents hashed
HashQueries == {"{test}", ""}

HexDigits == <<"0", "1", "2", "3", "4", "5", "6", "7", "8", "9", "a", "b", "c", "d", "e", "f">>

\* n.toString(16) of a byte n, as its characters: no leading zero
ToString16(n) ==
  IF n < 16 THEN <<HexDigits[n + 1]>>
  ELSE <<HexDigits[(n \div 16) + 1], HexDigits[(n % 16) + 1]>>

\* str.slice(0, end)
Slice0(str, end) == SubSeq(str, 1, IF end < Len(str) THEN end ELSE Len(str))

\* a padding that is always empty
Pad_none(hex) == <<>>

\* line 11: "00".slice(0, Math.max(0, 2 - hex.length))
Pad(hex) == Slice0(<<"0", "0">>, IF 2 - Len(hex) > 0 THEN 2 - Len(hex) ELSE 0)

\* hashDocument before it is called
HashIdle == [pc |-> "idle", query |-> "", out |-> <<>>, i |-> 0, hash |-> <<>>]

(***************************************************************************)
(* Bounds of the model                                                     *)
(***************************************************************************)
\* longest error sequence a validate or execute strategy returns
MaxErrors == 2
\* how many options of one handler differ from the defaults
MaxCustom == 2

(***************************************************************************)
(* JavaScript values.  Every value is a record tagged with its typeof/kind *)
(* so that values of different kinds can be compared.                      *)
(***************************************************************************)
Undefined == [t |-> "undefined"]
Null == [t |-> "null"]
Num(n) == [t |-> "number", n |-> n]
Fn(name) == [t |-> "function", name |-> name]
\* a string that is neither JSON text nor form-encoded fields
S(s) == [t |-> "string", enc |-> "raw", s |-> s]
\* the string JSON.stringify(v)
JsonText(v) == [t |-> "string", enc |-> "json", v |-> v]
\* the string new URLSearchParams({query, variables, operationName}).toString()
\* (a field that is Null is not in the string)
FormText(q, v, o) == [t |-> "string", enc |-> "form", query |-> q, variables |-> v, operationName |-> o]
\* a plain object with the given own properties
Obj(props) == [t |-> "object", props |-> props]
Arr(items) == [t |-> "array", items |-> items]
\* an Error instance (its stack is not part of any formatted error)
ErrorObj(msg) == Obj([message |-> S(msg), stack |-> S("<stack>")])

IsNullish(v) == v.t \in {"undefined", "null"}

\* JavaScript truthiness: what if (v), v || w and v ? a : b test
Truthy(v) ==
  /\ ~IsNullish(v)
  /\ v # S("")
  /\ v # Num(0)

\* v || w
Or(v, w) == IF Truthy(v) THEN v ELSE w

\* property read v.k on a non-nullish value
Get(v, k) == IF v.t = "object" /\ k \in DOMAIN v.props THEN v.props[k] ELSE Undefined

\* the outcome of a call: a returned (resolved) value or a thrown (rejected) one
Return(v) == [ok |-> TRUE, v |-> v]
Throw(e) == [ok |-> FALSE, v |-> e]

(***************************************************************************)
(* The handler configuration (createHandler.js:7-36)                       *)
(***************************************************************************)
\* the object a handler is given as config.context
ConfigContext == Obj([foo |-> S("bar")])

\* a validation rule of the caller's own
AlwaysInvalidRule == Fn("AlwaysInvalidRule")

\* createRequestHandler called with no options: every default applies
BaseConfig ==
  [allowOrigins |-> Undefined, context |-> Undefined, pretty |-> FALSE,
   validationRules |-> Arr(<<>>),
   extensions |-> Undefined, execute |-> Fn("gqlExecute"), parse |-> Fn("gqlParse"),
   formatError |-> Fn("gqlFormatError"), validate |-> Undefined]

AllConfigs ==
  [allowOrigins : {Undefined, S("*")},
   context : {Undefined, ConfigContext},
   pretty : BOOLEAN,
   validationRules : {Arr(<<>>), Arr(<<AlwaysInvalidRule>>)},
   extensions : {Undefined, Fn("extensions")},
   execute : {Fn("gqlExecute"), Fn("customExecute")},
   parse : {Fn("gqlParse"), Fn("customParse")},
   formatError : {Fn("gqlFormatError"), Fn("elaborate"), Fn("throwing")},
   validate : {Undefined, Fn("validate")}]

\* the number of options in which c differs from the defaults
CustomCount(c) == Cardinality({k \in DOMAIN c : c[k] # BaseConfig[k]})

Configs == {c \in AllConfigs : CustomCount(c) <= MaxCustom}

\* baseHeaders as built at construction
BaseHeadersOf(c) ==
  IF Truthy(c.allowOrigins)
    THEN ("Content-Type" :> S("application/json")) @@ ("Access-Control-Allow-Origin" :> c.allowOrigins)
    ELSE ("Content-Type" :> S("application/json"))

(***************************************************************************)
(* Requests                                                                *)
(***************************************************************************)
\* query texts: one anonymous query, one mutation, a query and a mutation
\* side by side, a text that is not a GraphQL document, and a query that
\* also selects fields the schema does not have
QTest == S("{test}")
QUnknown == S("{ test, unknownOne, unknownTwo }")
QMutation == S("mutation M { writeTest { test } }")
QMulti == S("query A { test } mutation B { writeTest { test } }")
QBad == S("{test")
\* a query and a mutation of one name, and a subscription
QSameName == S("query A { test } mutation A { writeTest { test } }")
QSubscription == S("subscription S { test }")

UrlVars == Obj([who |-> S("Dolly")])
BodyVars == Obj([who |-> S("You")])
\* a text JSON.parse rejects
BadJson == S("who:You")
\* variables that are not an object: a string that is no JSON text, and the
\* string "1", which is the JSON text of the number 1
StrVar == S("abc")
StrOne == JsonText(Num(1))
\* the values sent as variables through each of the channels
RoundTripValues == {UrlVars, BodyVars, Null, Num(0), StrVar, StrOne}

\* what searchParams.get gives for each parameter: null when the URL lacks it
UrlQueries == {Null, S(""), QTest, QMutation, QMulti, QBad}
UrlVariables == {Null, S(""), JsonText(UrlVars), BadJson}
UrlOperationNames == {Null, S(""), S("A"), S("B")}
Urls == [query : UrlQueries, variables : UrlVariables, operationName : UrlOperationNames]

\* headers.get("Content-Type"): null when the request has no such header
ContentTypes ==
  {Null, S("application/json"), S("application/x-www-form-urlencoded"),
   S("application/graphql"), S("text/plain")}

\* the fields a body can carry
BodyFieldSets ==
  {f \in [query : {Undefined, QMutation},
          variables : {Undefined, BodyVars, JsonText(BodyVars), BadJson, S("")},
          operationName : {Undefined, S("B")}] :
     /\ \E k \in DOMAIN f : f[k] # Undefined}

\* the object literal with the fields of f that are defined
ObjOf(f) == Obj([k \in {k \in DOMAIN f : f[k] # Undefined} |-> f[k]])

\* a form field is a string: absent is null, and an object is no form value
FormField(v) == IF v = Undefined THEN Null ELSE v

JsonBodies ==
  {JsonText(ObjOf(f)) : f \in {g \in BodyFieldSets : g.variables # S("")}}
    \cup {JsonText(Arr(<<>>)), JsonText(Null)}
FormBodies ==
  {FormText(FormField(f.query), FormField(f.variables), FormField(f.operationName)) :
     f \in {g \in BodyFieldSets : g.variables # BodyVars}}
\* the empty body, a GraphQL text and a truncated JSON text
RawBodies == {S(""), QMutation, S("{\"query\":")}
\* Null: the request has no body
Bodies == {Null} \cup JsonBodies \cup FormBodies \cup RawBodies

MkRequest(m, u, ct, b) ==
  [t |-> "object", class |-> "Request", method |-> m, url |-> u, contentType |-> ct, body |-> b]

\* the requests that carry the variables v through one channel: encoded in
\* the URL, encoded as a string of a JSON body, as they are in a JSON body,
\* encoded in a form body
RoundTripRequests(v) ==
  LET noUrl == [query |-> Null, variables |-> Null, operationName |-> Null] IN
    {MkRequest("GET", [query |-> QTest, variables |-> JsonText(v), operationName |-> Null], Null, Null),
     MkRequest("POST", noUrl, S("application/json"),
               JsonText(Obj([query |-> QTest, variables |-> JsonText(v)]))),
     MkRequest("POST", noUrl, S("application/json"),
               JsonText(Obj([query |-> QTest, variables |-> v]))),
     MkRequest("POST", noUrl, S("application/x-www-form-urlencoded"),
               FormText(QTest, JsonText(v), Null))}

\* a GET request has no body; a request the handler rejects by its method
\* is given a few bodies and headers only
Requests ==
  {MkRequest("GET", u, ct, Null) : u \in Urls, ct \in ContentTypes}
    \cup {MkRequest("POST", u, ct, b) : u \in Urls, ct \in ContentTypes, b \in Bodies}
    \cup {MkRequest(m, u, ct, b) : m \in {"PUT", "OPTIONS"}, u \in Urls,
            ct \in {Null, S("application/json")},
            b \in {Null, JsonText(Obj([query |-> QMutation])), S("{\"query\":")}}
    \cup UNION {RoundTripRequests(v) : v \in RoundTripValues}
    \cup {MkRequest("GET", [query |-> QUnknown, variables |-> Null, operationName |-> Null], Null, Null)}
    \cup {MkRequest(m, [query |-> q, variables |-> Null, operationName |-> n], Null, Null) :
            m \in {"GET"}, q \in {QSameName, QSubscription}, n \in {Null, S("A"), S("B")}}

\* the requests every configuration is run against
CoreRequests ==
  {r \in Requests :
     /\ r.url.variables = Null
     /\ r.url.operationName \in {Null, S("A"), S("B")}
     /\ r.url.query \notin {S(""), QSameName, QSubscription}
     /\ <<r.contentType, r.body>> \in
          {<<Null, Null>>,
           <<S("application/json"), JsonText(Obj([query |-> QMutation]))>>,
           <<S("application/json"), S("{\"query\":")>>}
     /\ r.method = "GET" => r.contentType = Null}

\* the second argument of the handler: none, a falsy value or an object
CallContext == Obj([user |-> S("me")])
LocalContexts == {Undefined, Num(0), CallContext}

(***************************************************************************)
(* parseParams (src/unnamed/part_002:46-88)                                *)
(***************************************************************************)
SyntaxErr == ErrorObj("Unexpected token in JSON")
TypeErr == ErrorObj("Cannot read property of null")

\* JSON.parse(s)
JSONParse(s) == IF s.enc = "json" THEN Return(s.v) ELSE Throw(SyntaxErr)

\* request.text(): the body as a string
BodyText(req) == IF req.body = Null THEN S("") ELSE req.body

\* new URLSearchParams(text).get(k)
FormGet(text, k) ==
  IF text.enc = "form"
    THEN (CASE k = "query" -> text.query
            [] k = "variables" -> text.variables
            [] k = "operationName" -> text.operationName)
    ELSE Null

\* contentType.includes(sub), for the header values of ContentTypes
Includes(ct, sub) == ct = S(sub)

\* body branches that do not ask for the method
BodyBranch_anyMethod(req) ==
  IF req.contentType = Null THEN "throw"
  ELSE IF Includes(req.contentType, "application/json") THEN "json"
  ELSE IF Includes(req.contentType, "application/x-www-form-urlencoded") THEN "form"
  ELSE IF Includes(req.contentType, "application/graphql") THEN "graphql"
  ELSE "none"

\* which of the three body branches is taken; "throw" when reading the
\* header of a POST request without Content-Type fails
BodyBranch(req) ==
  IF req.method # "POST" THEN "none"
  ELSE IF req.contentType = Null THEN "throw"
  ELSE IF Includes(req.contentType, "application/json") THEN "json"
  ELSE IF Includes(req.contentType, "application/x-www-form-urlencoded") THEN "form"
  ELSE IF Includes(req.contentType, "application/graphql") THEN "graphql"
  ELSE "none"

\* does parseParams read the body of req
ReadsBody(req) == BodyBranch(req) \in {"json", "form", "graphql"}

NoFields == [query |-> Undefined, variables |-> Undefined, operationName |-> Undefined]

\* the three properties read from a non-nullish fromBody
FieldsOf(v) ==
  [query |-> Get(v, "query"), variables |-> Get(v, "variables"),
   operationName |-> Get(v, "operationName")]

\* fromBody, as the three properties the merge reads from it
FromBody(req) ==
  CASE BodyBranch(req) = "none" -> Return(NoFields)
    [] BodyBranch(req) = "throw" -> Throw(TypeErr)
    [] BodyBranch(req) = "json" ->
         LET parsed == JSONParse(BodyText(req)) IN
           IF ~parsed.ok THEN parsed
           ELSE IF IsNullish(parsed.v) THEN Throw(TypeErr)
           ELSE Return(FieldsOf(parsed.v))
    [] BodyBranch(req) = "form" ->
         LET text == BodyText(req)
             rawVars == FormGet(text, "variables")
             decoded == IF Truthy(rawVars) THEN JSONParse(rawVars) ELSE Return(rawVars)
         IN IF ~decoded.ok THEN decoded
            ELSE Return([query |-> FormGet(text, "query"), variables |-> decoded.v,
                         operationName |-> FormGet(text, "operationName")])
    [] BodyBranch(req) = "graphql" ->
         Return([query |-> BodyText(req), variables |-> Undefined, operationName |-> Undefined])

\* a merge that takes a string from the body as the variables, undecoded
MergeParams_noStringDecode(fromURL, fromBody) ==
  LET variables ==
        IF Truthy(fromURL.variables) THEN JSONParse(fromURL.variables)
        ELSE Return(fromBody.variables)
  IN IF ~variables.ok THEN variables
     ELSE Return([query |-> Or(fromURL.query, fromBody.query),
                  variables |-> variables.v,
                  operationName |-> Or(fromURL.operationName, fromBody.operationName)])

\* a merge in which the body wins over the URL
MergeParams_bodyFirst(fromURL, fromBody) ==
  LET variables ==
        IF fromBody.variables.t = "string" THEN JSONParse(fromBody.variables)
        ELSE IF Truthy(fromBody.variables) THEN Return(fromBody.variables)
        ELSE IF Truthy(fromURL.variables) THEN JSONParse(fromURL.variables)
        ELSE Return(fromBody.variables)
  IN IF ~variables.ok THEN variables
     ELSE Return([query |-> Or(fromBody.query, fromURL.query),
                  variables |-> variables.v,
                  operationName |-> Or(fromBody.operationName, fromURL.operationName)])

\* lines 76-84: the merge of the URL with fromBody
MergeParams(fromURL, fromBody) ==
  LET variables ==
        IF Truthy(fromURL.variables) THEN JSONParse(fromURL.variables)
        ELSE IF fromBody.variables.t = "string" THEN JSONParse(fromBody.variables)
        ELSE Return(fromBody.variables)
  IN IF ~variables.ok THEN variables
     ELSE Return([query |-> Or(fromURL.query, fromBody.query),
                  variables |-> variables.v,
                  operationName |-> Or(fromURL.operationName, fromBody.operationName)])

\* a parseParams without its catch clause: the parse error is thrown as it is
parseParams_uncaught(req) ==
  LET fromBody == FromBody(req) IN
    IF fromBody.ok THEN MergeParams(req.url, fromBody.v) ELSE fromBody

\* parseParams(request): the resolved parameters, or the thrown
\* {status: 400, error: parseError}
parseParams(req) ==
  LET fromBody == FromBody(req)
      merged == IF fromBody.ok THEN MergeParams(req.url, fromBody.v) ELSE fromBody
  IN IF merged.ok THEN merged
     ELSE Throw(Obj([status |-> Num(400), error |-> merged.v]))

(***************************************************************************)
(* The strategies: parse, getOperationAST, validate, execute, extensions   *)
(* and formatError.  The engine's own functions are modelled by what the   *)
(* handler observes of them; a custom strategy may return or throw         *)
(* anything.                                                               *)
(***************************************************************************)
\* a document: its operations, and how many of the fields it selects the
\* schema does not have
Doc(defs) == [t |-> "object", class |-> "Document", definitions |-> defs, unknownFields |-> 0]
OpDef(operation, name) == [kind |-> "OperationDefinition", operation |-> operation, name |-> name]

DocTest == Doc(<<OpDef("query", Undefined)>>)
DocMutation == Doc(<<OpDef("mutation", S("M"))>>)
DocMulti == Doc(<<OpDef("query", S("A")), OpDef("mutation", S("B"))>>)
DocUnknown == [Doc(<<OpDef("query", Undefined)>>) EXCEPT !.unknownFields = MaxErrors]
DocSameName == Doc(<<OpDef("query", S("A")), OpDef("mutation", S("A"))>>)
DocSubscription == Doc(<<OpDef("subscription", S("S"))>>)
Docs == {DocTest, DocMutation, DocMulti, DocUnknown}

\* an error of the engine: only message, locations and path are formatted
GraphQLError(msg) == ErrorObj(msg)
ValidationError(k) ==
  Obj([message |-> S("Cannot query field."), locations |-> Num(k), stack |-> S("<stack>")])
FieldError(k) ==
  Obj([message |-> S("Throws!"), locations |-> Num(k), path |-> S("thrower"), stack |-> S("<stack>")])

\* a thrown object with headers of its own, as HTTP error objects have
ThrownWithHeaders ==
  Obj([error |-> S("denied"),
       headers |-> Obj(("Content-Type" :> S("text/plain")) @@ ("Allow" :> S("GET")))])

\* what a custom strategy throws: an Error, null, or an object that looks
\* like the handler's own failures
Thrown ==
  {ErrorObj("I did something wrong"), Null, Obj([status |-> Num(418), error |-> S("teapot")]),
   ThrownWithHeaders}

\* the engine's parse
gqlParse(query) ==
  CASE query = QTest -> Return(DocTest)
    [] query = QMutation -> Return(DocMutation)
    [] query = QMulti -> Return(DocMulti)
    [] query = QUnknown -> Return(DocUnknown)
    [] query = QSameName -> Return(DocSameName)
    [] query = QSubscription -> Return(DocSubscription)
    [] OTHER -> Throw(GraphQLError("Syntax Error"))

\* the outcomes of parse(query)
ParseOutcomes(fn, query) ==
  IF fn = Fn("gqlParse") THEN {gqlParse(query)}
  ELSE {Return(d) : d \in Docs} \cup {Throw(e) : e \in Thrown}

\* the engine's getOperationAST(document, operationName): the operation named
\* operationName, else the only operation, else null
getOperationAST(document, operationName) ==
  LET defs == document.definitions IN
    IF IsNullish(operationName)
      THEN IF Len(defs) = 1 THEN defs[1] ELSE Null
      ELSE IF \E k \in 1..Len(defs) : defs[k].name = operationName
             THEN defs[CHOOSE k \in 1..Len(defs) :
                         /\ defs[k].name = operationName
                         /\ \A j \in 1..(k - 1) : defs[j].name # operationName]
             ELSE Null

ValidationErrors(n) == Arr([k \in 1..n |-> ValidationError(k)])
FieldErrors(n) == Arr([k \in 1..n |-> FieldError(k)])

\* the rules of the GraphQL specification (graphql/validation/specifiedRules),
\* of which the model has the one that reports fields the schema lacks
specifiedRules == <<Fn("FieldsOnCorrectTypeRule")>>

\* the engine's validate: the errors the rules report while the document is
\* visited, first those a rule reports on the document node, then one for
\* each unknown field
gqlValidate(document, rules) ==
  LET onDocument == SelectSeq(rules.items, LAMBDA f : f = AlwaysInvalidRule)
      onFields == IF \E k \in 1..Len(rules.items) : rules.items[k] = Fn("FieldsOnCorrectTypeRule")
                    THEN ValidationErrors(document.unknownFields).items
                    ELSE <<>>
  IN Return(Arr([k \in 1..Len(onDocument) |-> GraphQLError("AlwaysInvalidRule was really invalid!")]
                  \o onFields))

\* the outcomes of validate(schema, document, validationRules): the engine's
\* errors, or for a custom function an error list, possibly empty, a throw,
\* or no list at all
ValidateOutcomes(fn, document, rules) ==
  IF fn = Fn("gqlValidate") THEN {gqlValidate(document, rules)}
  ELSE {Return(ValidationErrors(n)) : n \in 0..MaxErrors}
         \cup {Throw(e) : e \in Thrown} \cup {Return(Undefined)}

\* the operation the engine's execute selects (graphql/execution/execute,
\* buildExecutionContext): without a name the only operation, with a name
\* the last operation of that name; null when there is none or no telling
ExecuteOperation(document, operationName) ==
  LET defs == document.definitions IN
    IF IsNullish(operationName)
      THEN IF Len(defs) = 1 THEN defs[1] ELSE Null
      ELSE IF \E k \in 1..Len(defs) : defs[k].name = operationName
             THEN defs[CHOOSE k \in 1..Len(defs) :
                         /\ defs[k].name = operationName
                         /\ \A j \in (k + 1)..Len(defs) : defs[j].name # operationName]
             ELSE Null

\* the data the test schema gives for an operation
DataOf(op) ==
  IF op.operation = "query" THEN Obj([test |-> S("Hello World")])
  ELSE Obj([writeTest |-> Obj([test |-> S("Hello World")])])

\* the outcomes of the engine's execute: variables that are no object are
\* refused with a throw; else no operation selected, or the selected
\* operation run with resolvers that succeed, fail on nullable fields or
\* fail on a non-null field
gqlExecuteOutcomes(args) ==
  LET defs == args.document.definitions
      op == ExecuteOperation(args.document, args.operationName)
  IN IF ~IsNullish(args.variableValues) /\ args.variableValues.t \notin {"object", "array"}
       THEN {Throw(ErrorObj("Variables must be an object."))}
     ELSE IF op # Null /\ op.operation = "subscription"
       THEN {Return(Obj([data |-> Null, errors |-> Arr(<<GraphQLError(
               "Schema is not configured for subscriptions.")>>)]))}
     ELSE IF op = Null
       THEN IF IsNullish(args.operationName) /\ Len(defs) > 1
              THEN {Return(Obj([errors |-> Arr(<<GraphQLError(
                      "Must provide operation name if query contains multiple operations.")>>)]))}
              ELSE {Return(Obj([errors |-> Arr(<<GraphQLError("Unknown operation named.")>>)]))}
       ELSE {Return(Obj([data |-> DataOf(op)]))}
              \cup {Return(Obj([data |-> DataOf(op), errors |-> FieldErrors(n)])) : n \in 1..MaxErrors}
              \cup {Return(Obj([data |-> Null, errors |-> FieldErrors(1)]))}

\* what a custom execute may return: well-formed results, a result whose data
\* is a falsy value, no result at all
CustomResults ==
  {Obj([data |-> Obj([test |-> S("Hello World")])]),
   Obj([data |-> Null, errors |-> FieldErrors(1)]),
   Obj([errors |-> FieldErrors(1)]),
   Obj([data |-> Num(0)]),
   Undefined}
    \cup {Obj([data |-> Obj([test |-> S("Hello World")]), errors |-> FieldErrors(n)]) : n \in 1..MaxErrors}

\* the outcomes of await execute(args)
ExecuteOutcomes(fn, args) ==
  IF fn = Fn("gqlExecute") THEN gqlExecuteOutcomes(args)
  ELSE {Return(r) : r \in CustomResults} \cup {Throw(e) : e \in Thrown}

\* the outcomes of await extensions(info)
ExtensionsOutcomes ==
  {Return(v) : v \in {Obj([runTime |-> Num(42)]), Undefined, Null, S("no object"), Num(42)}}
    \cup {Throw(e) : e \in Thrown}

\* a string built by "prefix" + rest
Concat(prefix, rest) == [t |-> "string", enc |-> "concat", prefix |-> prefix, rest |-> rest]

\* the engine's formatError: message, locations and path of the error
gqlFormatError(error) ==
  IF ~Truthy(error) THEN Throw(ErrorObj("Received null or undefined error."))
  ELSE LET kept == {k \in {"locations", "path", "extensions"} : Get(error, k) # Undefined}
       IN Return(Obj([k \in {"message"} \cup kept |->
            IF k = "message"
              THEN (IF IsNullish(Get(error, "message")) THEN S("An unknown error occurred.")
                    ELSE Get(error, "message"))
              ELSE Get(error, k)]))

\* formatError(error): the engine's, a custom one that elaborates the
\* message, or a custom one that throws
formatError(fn, error) ==
  CASE fn = Fn("gqlFormatError") -> gqlFormatError(error)
    [] fn = Fn("elaborate") ->
         IF IsNullish(error) THEN Throw(TypeErr)
         ELSE Return(Obj([message |-> Concat("Custom error format: ", Get(error, "message"))]))
    [] OTHER -> Throw(ErrorObj("formatter failed"))

\* a map that formats the first item only and passes the others on as they are
MapFormatError_firstOnly(fn, items) ==
  LET outs == [k \in 1..Len(items) |->
                 IF k = 1 THEN formatError(fn, items[k]) ELSE Return(items[k])] IN
    IF \A k \in 1..Len(items) : outs[k].ok
      THEN Return(Arr([k \in 1..Len(items) |-> outs[k].v]))
      ELSE outs[1]

\* items.map(formatError): the formatted array, or what the first failing
\* call throws
MapFormatError(fn, items) ==
  LET outs == [k \in 1..Len(items) |-> formatError(fn, items[k])] IN
    IF \A k \in 1..Len(items) : outs[k].ok
      THEN Return(Arr([k \in 1..Len(items) |-> outs[k].v]))
      ELSE outs[CHOOSE k \in 1..Len(items) : ~outs[k].ok /\ \A j \in 1..(k - 1) : outs[j].ok]

\* items.map(formatError): the errors formatError is called with, in call
\* order (all of them, or those up to the call that throws)
FormatCalls(fn, items) ==
  IF \A k \in 1..Len(items) : formatError(fn, items[k]).ok
    THEN items
    ELSE SubSeq(items, 1, CHOOSE k \in 1..Len(items) :
                 ~formatError(fn, items[k]).ok /\ \A j \in 1..(k - 1) : formatError(fn, items[j]).ok)

(***************************************************************************)
(* Responses                                                               *)
(***************************************************************************)
\* a serialization that drops the keys whose value is null as well
Stringify_dropNull(envelope, pretty) ==
  [kind |-> "json", indent |-> IF pretty THEN 2 ELSE 0,
   fields |-> SelectSeq(envelope, LAMBDA f : f.v # Undefined /\ f.v # Null)]

\* a serialization whose pretty form leaves out the keys whose value is null
Stringify_prettyDropsNull(envelope, pretty) ==
  [kind |-> "json", indent |-> IF pretty THEN 2 ELSE 0,
   fields |-> SelectSeq(envelope, LAMBDA f : f.v # Undefined /\ (pretty => f.v # Null))]

\* JSON.stringify(envelope, null, pretty ? 2 : 0): the keys whose value is
\* not undefined, in order, and the indentation
Stringify(envelope, pretty) ==
  [kind |-> "json", indent |-> IF pretty THEN 2 ELSE 0,
   fields |-> SelectSeq(envelope, LAMBDA f : f.v # Undefined)]

EmptyBody == [kind |-> "empty", indent |-> 0, fields |-> <<>>]

\* new Response(body, {status, headers})
Response(body, status, headers) == [status |-> status, headers |-> headers, body |-> body]

\* a merge in which base wins on a key both have
MergeHeaders_baseWins(base, extra) == IF extra.t = "object" THEN base @@ extra.props ELSE base

\* {...base, ...extra}: extra wins on a key both have
MergeHeaders(base, extra) == IF extra.t = "object" THEN extra.props @@ base ELSE base

\* preflight headers spread over the base headers
PreflightHeaders_withBase(origin) ==
  ("Allow" :> S("OPTIONS, GET, POST"))
    @@ ("Access-Control-Allow-Methods" :> S("OPTIONS, GET, POST"))
    @@ ("Access-Control-Allow-Origin" :> origin)
    @@ ("Content-Type" :> S("application/json"))

\* lines 47-51: the headers of the preflight response
PreflightHeaders(origin) ==
  ("Allow" :> S("OPTIONS, GET, POST"))
    @@ ("Access-Control-Allow-Methods" :> S("OPTIONS, GET, POST"))
    @@ ("Access-Control-Allow-Origin" :> origin)

MethodFailure ==
  Obj([headers |-> Obj("Allow" :> S("OPTIONS, GET, POST")), status |-> Num(405),
       error |-> S("GraphQL only supports GET and POST requests.")])
QueryFailure == Obj([status |-> Num(400), error |-> S("Must provide query string.")])
MutationFailure ==
  Obj([status |-> Num(405),
       error |-> S("Can only perform a mutation operation from a POST request."),
       headers |-> Obj("Allow" :> S("POST"))])

(***************************************************************************)
(* The decisions of the handler (createHandler.js:43-147)                  *)
(***************************************************************************)
\* line 44: is the request answered as a CORS preflight
IsPreflight(method, allowOrigins) == method = "OPTIONS" /\ Truthy(allowOrigins)

\* a method check that lets PUT through as well
IsSupportedMethod_withPut(method) == method = "POST" \/ method = "GET" \/ method = "PUT"

\* line 55: the methods that go on to parameter resolution
IsSupportedMethod(method) == method = "POST" \/ method = "GET"

\* a query check that only catches a query that is undefined
QueryMissing_undefinedOnly(query) == query = Undefined

\* line 63: !query
QueryMissing(query) == ~Truthy(query)

\* a guard that rejects a document as soon as it holds a mutation
IsMutationOverGet_anyOperation(method, document, operationName) ==
  /\ method = "GET"
  /\ \E k \in 1..Len(document.definitions) : document.definitions[k].operation # "query"

\* a guard that forgets to look at the method
IsMutationOverGet_anyMethod(method, document, operationName) ==
  LET doc == getOperationAST(document, operationName) IN
    doc # Null /\ doc.operation # "query"

\* lines 72-74: a GET request whose operation is not a query
IsMutationOverGet(method, document, operationName) ==
  /\ method = "GET"
  /\ LET doc == getOperationAST(document, operationName) IN
       doc # Null /\ doc.operation # "query"

\* a handler that validates whether or not a validate function is configured
ValidateConfigured_always(validate) == TRUE

\* line 83: if (validate)
ValidateConfigured(validate) == Truthy(validate)

\* a validation check that lets a single error through
ValidationFailed_moreThanOne(validationErrors) == Len(validationErrors.items) > 1

\* line 85: validationErrors.length > 0
ValidationFailed(validationErrors) == Len(validationErrors.items) > 0

\* line 98: localContext || context || request
ContextValue(localContext, context, request) == Or(Or(localContext, context), request)

\* a status that does not look at the data
StatusOf_always200(data) == 200

\* line 123: result.data ? 200 : 500
StatusOf(data) == IF Truthy(data) THEN 200 ELSE 500

\* line 142: status || 500
FailureStatus(status) == IF Truthy(status) THEN status.n ELSE 500

(***************************************************************************)
(* The handler (createHandler.js:43-147), one action per stage             *)
(***************************************************************************)
Invocations == {1, 2}

\* an invocation that has not been called yet
Idle ==
  [pc |-> "idle", request |-> Undefined, localContext |-> Undefined,
   params |-> NoFields, document |-> Undefined, result |-> Undefined,
   extensionsResult |-> Undefined, caught |-> Undefined, rejection |-> Undefined,
   response |-> Undefined, calls |-> <<>>, bodyReads |-> 0, failedAt |-> "none",
   validateArgs |-> Undefined, validationErrors |-> Undefined,
   executeArgs |-> Undefined, extensionsArgs |-> Undefined, formatCalls |-> <<>>,
   arrivedAt |-> "none"]

\* the inputs the model runs: every request against the default handler,
\* and every handler and per-call context against the core requests
ScopeRequests(c) == IF c = BaseConfig /\ options = Undefined THEN Requests ELSE CoreRequests
ScopeContexts(c, r) == IF r \in CoreRequests THEN LocalContexts ELSE {Undefined}

\* a full createRequestHandler that hands on the caller's rules alone
createRequestHandler_rulesReplaced(opts) ==
  [opts EXCEPT
     !.validationRules = opts.validationRules,
     !.validate = IF opts.validate = Undefined THEN Fn("gqlValidate") ELSE opts.validate]

\* the full createRequestHandler (createHandler.express.test.js:1432-1476):
\* the options it calls the lean createRequestHandler with
createRequestHandler(opts) ==
  [opts EXCEPT
     !.validationRules = Arr(specifiedRules \o opts.validationRules.items),
     !.validate = IF opts.validate = Undefined THEN Fn("gqlValidate") ELSE opts.validate]

\* a handler is built by the lean createRequestHandler, called directly or
\* by the full one
Init ==
  /\ \/ /\ options = Undefined
        /\ cfg \in Configs
     \/ /\ options \in Configs
        /\ cfg = createRequestHandler(options)
  /\ baseHeaders = BaseHeadersOf(cfg)
  /\ h = [i \in Invocations |-> Idle]
  /\ hd = HashIdle

\* a throw that is swallowed when validate fails: the handler goes on to
\* execute
Fail_validateGoesOn(rec, e) ==
  IF rec.pc = "validate"
    THEN [rec EXCEPT !.pc = "execute", !.caught = e, !.failedAt = rec.pc]
    ELSE [rec EXCEPT !.pc = "catch", !.caught = e, !.failedAt = rec.pc]

\* a throw inside the try block: control goes to the catch clause with e
\* (failedAt keeps the stage that threw)
Fail(rec, e) == [rec EXCEPT !.pc = "catch", !.caught = e, !.failedAt = rec.pc]

Called(rec, fn) == [rec EXCEPT !.calls = Append(@, fn)]

\* handler(request, localContext) is called
Receive(i) ==
  /\ h[i].pc = "idle"
  /\ \E r \in ScopeRequests(cfg) : \E lc \in ScopeContexts(cfg, r) :
       h' = [h EXCEPT ![i] = [@ EXCEPT !.pc = "called", !.request = r, !.localContext = lc]]
  /\ UNCHANGED <<options, cfg, baseHeaders, hd>>

\* lines 44-53: the OPTIONS preflight
Preflight(i) ==
  /\ h[i].pc = "called"
  /\ h' = [h EXCEPT ![i] =
       IF IsPreflight(h[i].request.method, cfg.allowOrigins)
         THEN [@ EXCEPT !.pc = "done",
                        !.response = Response(EmptyBody, 204, PreflightHeaders(cfg.allowOrigins))]
         ELSE [@ EXCEPT !.pc = "methodCheck"]]
  /\ UNCHANGED <<options, cfg, baseHeaders, hd>>

\* lines 55-61: only GET and POST go on
MethodCheck(i) ==
  /\ h[i].pc = "methodCheck"
  /\ h' = [h EXCEPT ![i] =
       IF ~IsSupportedMethod(h[i].request.method)
         THEN Fail(@, MethodFailure)
         ELSE [@ EXCEPT !.pc = "parseParams"]]
  /\ UNCHANGED <<options, cfg, baseHeaders, hd>>

\* line 62: await parseParams(request)
AwaitParseParams(i) ==
  /\ h[i].pc = "parseParams"
  /\ LET out == parseParams(h[i].request)
         rec == [Called(h[i], "parseParams") EXCEPT
                   !.bodyReads = IF ReadsBody(h[i].request) THEN @ + 1 ELSE @]
     IN h' = [h EXCEPT ![i] =
          IF out.ok THEN [rec EXCEPT !.pc = "queryCheck", !.params = out.v]
          ELSE Fail(rec, out.v)]
  /\ UNCHANGED <<options, cfg, baseHeaders, hd>>

\* lines 63-65: a query is required
QueryCheck(i) ==
  /\ h[i].pc = "queryCheck"
  /\ h' = [h EXCEPT ![i] =
       IF QueryMissing(h[i].params.query) THEN Fail(@, QueryFailure)
       ELSE [@ EXCEPT !.pc = "parse"]]
  /\ UNCHANGED <<options, cfg, baseHeaders, hd>>

\* lines 66-71: parse(query); what it throws becomes a 400 failure
Parse(i) ==
  /\ h[i].pc = "parse"
  /\ \E out \in ParseOutcomes(cfg.parse, h[i].params.query) :
       LET rec == Called(h[i], "parse") IN
         h' = [h EXCEPT ![i] =
           IF out.ok THEN [rec EXCEPT !.pc = "guard", !.document = out.v]
           ELSE Fail(rec, Obj([status |-> Num(400), error |-> Arr(<<out.v>>)]))]
  /\ UNCHANGED <<options, cfg, baseHeaders, hd>>

\* lines 72-81: over GET only a query operation may run
MutationGuard(i) ==
  /\ h[i].pc = "guard"
  /\ h' = [h EXCEPT ![i] =
       IF IsMutationOverGet(h[i].request.method, h[i].document, h[i].params.operationName)
         THEN Fail(@, MutationFailure)
         ELSE [@ EXCEPT !.pc = "validate"]]
  /\ UNCHANGED <<options, cfg, baseHeaders, hd>>

\* the arguments of validate (line 84), the schema left out
ValidateArgs(rec) == [document |-> rec.document, validationRules |-> cfg.validationRules]

\* lines 83-91: validate, when a validate function is configured
Validate(i) ==
  /\ h[i].pc = "validate"
  /\ \/ /\ ~ValidateConfigured(cfg.validate)
        /\ h' = [h EXCEPT ![i] = [@ EXCEPT !.pc = "execute"]]
     \/ /\ ValidateConfigured(cfg.validate)
        /\ \E out \in ValidateOutcomes(cfg.validate, h[i].document, cfg.validationRules) :
             LET called == [Called(h[i], "validate") EXCEPT
                              !.validateArgs = ValidateArgs(h[i])]
                 rec == IF out.ok THEN [called EXCEPT !.validationErrors = out.v] ELSE called
             IN h' = [h EXCEPT ![i] =
                  IF ~out.ok THEN Fail(rec, out.v)
                  ELSE IF IsNullish(out.v) THEN Fail(rec, TypeErr)
                  ELSE IF ValidationFailed(out.v)
                    THEN Fail(rec, Obj([status |-> Num(400), error |-> out.v]))
                  ELSE [rec EXCEPT !.pc = "execute"]]
  /\ UNCHANGED <<options, cfg, baseHeaders, hd>>

\* the argument of execute (lines 92-101)
ExecuteArgs(rec) ==
  [document |-> rec.document,
   variableValues |-> rec.params.variables,
   operationName |-> rec.params.operationName,
   contextValue |-> ContextValue(rec.localContext, cfg.context, rec.request)]

\* lines 92-101: await execute(...)
Execute(i) ==
  /\ h[i].pc = "execute"
  /\ \E out \in ExecuteOutcomes(cfg.execute, ExecuteArgs(h[i])) :
       LET rec == [Called(h[i], "execute") EXCEPT !.executeArgs = ExecuteArgs(h[i])] IN
         h' = [h EXCEPT ![i] =
           IF out.ok THEN [rec EXCEPT !.pc = "extensions", !.result = out.v]
           ELSE Fail(rec, out.v)]
  /\ UNCHANGED <<options, cfg, baseHeaders, hd>>

\* an argument of extensions whose context is the one execute was given
ExtensionsArgs_executeContext(rec) ==
  [document |-> rec.document, variables |-> rec.params.variables,
   operationName |-> rec.params.operationName, result |-> rec.result,
   context |-> ContextValue(rec.localContext, cfg.context, rec.request)]

\* the argument of extensions (lines 104-110)
ExtensionsArgs(rec) ==
  [document |-> rec.document, variables |-> rec.params.variables,
   operationName |-> rec.params.operationName, result |-> rec.result,
   context |-> cfg.context]

\* lines 102-111: await extensions(...), when an extensions function is configured
Extensions(i) ==
  /\ h[i].pc = "extensions"
  /\ \/ /\ ~Truthy(cfg.extensions)
        /\ h' = [h EXCEPT ![i] = [@ EXCEPT !.pc = "respond"]]
     \/ /\ Truthy(cfg.extensions)
        /\ \E out \in ExtensionsOutcomes :
             LET rec == [Called(h[i], "extensions") EXCEPT !.extensionsArgs = ExtensionsArgs(h[i])] IN
               h' = [h EXCEPT ![i] =
                 IF out.ok THEN [rec EXCEPT !.pc = "respond", !.extensionsResult = out.v]
                 ELSE Fail(rec, out.v)]
  /\ UNCHANGED <<options, cfg, baseHeaders, hd>>

\* line 115: the errors result.errors.map(formatError) goes through
SuccessItems(result) ==
  LET errors == Get(result, "errors") IN
    IF Truthy(errors) /\ errors.t = "array" THEN errors.items ELSE <<>>

\* lines 112-126: the response a handler with options c and base headers bh
\* builds from a result of execute, or what building it throws
SuccessResponse(c, bh, result, extensionsResult) ==
  LET errors == Get(result, "errors")
      mapped == IF ~Truthy(errors) THEN Return(errors)
                ELSE IF errors.t # "array" THEN Throw(TypeErr)
                ELSE MapFormatError(c.formatError, SuccessItems(result))
  IN IF IsNullish(result) THEN Throw(TypeErr)
     ELSE IF ~mapped.ok THEN mapped
     ELSE Return(Response(
            Stringify(<<[k |-> "errors", v |-> mapped.v],
                        [k |-> "data", v |-> Get(result, "data")],
                        [k |-> "extensions", v |-> extensionsResult]>>,
                      c.pretty),
            StatusOf(Get(result, "data")),
            bh))

\* lines 112-126: the response to a result of execute
Respond(i) ==
  /\ h[i].pc = "respond"
  /\ LET out == SuccessResponse(cfg, baseHeaders, h[i].result, h[i].extensionsResult) IN
       h' = [h EXCEPT ![i] =
         LET rec == [@ EXCEPT !.formatCalls =
                       @ \o FormatCalls(cfg.formatError, SuccessItems(h[i].result))]
         IN IF out.ok THEN [rec EXCEPT !.pc = "done", !.response = out.v]
            ELSE Fail(rec, out.v)]
  /\ UNCHANGED <<options, cfg, baseHeaders, hd>>

\* lines 129-136: the errors the catch clause maps formatError over: the
\* items of an array payload, or the one payload, wrapped as {message} when
\* it is no object
FailureItems(e) ==
  LET reason == Or(Get(e, "error"), e) IN
    IF reason.t = "array" THEN reason.items
    ELSE <<IF reason.t \in {"object", "array"} THEN reason
           ELSE Obj([message |-> reason])>>

\* lines 127-146: the response a handler with options c and base headers bh
\* builds from a caught value e, or what building it throws
FailureResponse(c, bh, e) ==
  LET status == Get(e, "status")
      mapped == MapFormatError(c.formatError, FailureItems(e))
  IN IF IsNullish(e) THEN Throw(TypeErr)
     ELSE IF ~mapped.ok THEN mapped
     ELSE Return(Response(
            Stringify(<<[k |-> "errors", v |-> mapped.v]>>, c.pretty),
            FailureStatus(status),
            MergeHeaders(bh, Get(e, "headers"))))

\* a catch clause that adds the failure's headers to the handler's base
\* headers before it answers
Catch_sharedHeaders(i) ==
  /\ h[i].pc = "catch"
  /\ LET merged == MergeHeaders(baseHeaders, Get(h[i].caught, "headers"))
         out == FailureResponse(cfg, merged, h[i].caught) IN
       /\ h' = [h EXCEPT ![i] =
            LET rec == IF IsNullish(h[i].caught) THEN @
                       ELSE [@ EXCEPT !.formatCalls =
                               @ \o FormatCalls(cfg.formatError, FailureItems(h[i].caught))]
            IN IF out.ok THEN [rec EXCEPT !.pc = "done", !.response = out.v]
               ELSE [rec EXCEPT !.pc = "rejected", !.rejection = out.v]]
       /\ baseHeaders' = merged
  /\ UNCHANGED <<options, cfg, hd>>

\* lines 127-146: the catch clause, the response to a failure; what the
\* clause itself throws rejects the handler's promise
Catch(i) ==
  /\ h[i].pc = "catch"
  /\ LET out == FailureResponse(cfg, baseHeaders, h[i].caught) IN
       h' = [h EXCEPT ![i] =
         LET rec == IF IsNullish(h[i].caught) THEN @
                    ELSE [@ EXCEPT !.formatCalls =
                            @ \o FormatCalls(cfg.formatError, FailureItems(h[i].caught))]
         IN IF out.ok THEN [rec EXCEPT !.pc = "done", !.response = out.v]
            ELSE [rec EXCEPT !.pc = "rejected", !.rejection = out.v]]
  /\ UNCHANGED <<options, cfg, baseHeaders, hd>>

Step(i) ==
  \/ Receive(i)
  \/ Preflight(i)
  \/ MethodCheck(i)
  \/ AwaitParseParams(i)
  \/ QueryCheck(i)
  \/ Parse(i)
  \/ MutationGuard(i)
  \/ Validate(i)
  \/ Execute(i)
  \/ Extensions(i)
  \/ Respond(i)
  \/ Catch(i)

\* one invocation of the handler at a time
Next == Step(1)

Spec == Init /\ [][Next]_vars

(***************************************************************************)
(* Two invocations of one handler, interleaved: each await (parseParams,   *)
(* execute, extensions) lets the other invocation run, and the steps       *)
(* between two awaits are interleaved as well                              *)
(***************************************************************************)
\* the handlers the interleaving is run for: CORS with extensions, and a
\* validate function with a context
PairConfigs ==
  {[BaseConfig EXCEPT !.allowOrigins = S("*"), !.extensions = Fn("extensions")],
   [BaseConfig EXCEPT !.validate = Fn("validate"), !.context = ConfigContext]}

\* the calls of the interleaving, request and per-call context: a query
\* over GET with a context, a mutation over GET, a mutation in a JSON body,
\* a preflight
PairCalls ==
  {<<MkRequest("GET", [query |-> QTest, variables |-> Null, operationName |-> Null], Null, Null),
     CallContext>>,
   <<MkRequest("GET", [query |-> QMutation, variables |-> Null, operationName |-> Null], Null, Null),
     Undefined>>,
   <<MkRequest("POST", [query |-> Null, variables |-> Null, operationName |-> Null],
               S("application/json"), JsonText(Obj([query |-> QMutation]))),
     Undefined>>,
   <<MkRequest("OPTIONS", [query |-> Null, variables |-> Null, operationName |-> Null], Null, Null),
     Undefined>>}

Other(i) == CHOOSE j \in Invocations : j # i

\* the awaits of the handler, where another invocation gets to run
Awaits == {"parseParams", "execute", "extensions"}

\* handler(request, localContext) is called, be it while the other
\* invocation is waiting (arrivedAt keeps the await it is waiting at)
ReceivePair(i) ==
  /\ h[i].pc = "idle"
  /\ \E call \in PairCalls :
       h' = [h EXCEPT ![i] =
         [@ EXCEPT !.pc = "called", !.request = call[1], !.localContext = call[2],
                   !.arrivedAt = IF h[Other(i)].pc \in Awaits THEN h[Other(i)].pc ELSE "apart"]]
  /\ UNCHANGED <<options, cfg, baseHeaders, hd>>

InitPair ==
  /\ options = Undefined
  /\ cfg \in PairConfigs
  /\ baseHeaders = BaseHeadersOf(cfg)
  /\ h = [i \in Invocations |-> Idle]
  /\ hd = HashIdle

StepPair(i) ==
  \/ ReceivePair(i)
  \/ Preflight(i)
  \/ MethodCheck(i)
  \/ AwaitParseParams(i)
  \/ QueryCheck(i)
  \/ Parse(i)
  \/ MutationGuard(i)
  \/ Validate(i)
  \/ Execute(i)
  \/ Extensions(i)
  \/ Respond(i)
  \/ Catch(i)

NextPair == \E i \in Invocations : StepPair(i)

SpecPair == InitPair /\ [][NextPair]_vars

(***************************************************************************)
(* One invocation under the proviso that the body read and every strategy  *)
(* call come back, by returning or by throwing: a step of the handler that *)
(* can be taken is taken in the end                                        *)
(***************************************************************************)
\* the handlers it is run for: those of the interleaving and those with at
\* most one option set
LiveConfigs == PairConfigs \cup {c \in AllConfigs : CustomCount(c) <= 1}

InitLive ==
  /\ options = Undefined
  /\ cfg \in LiveConfigs
  /\ baseHeaders = BaseHeadersOf(cfg)
  /\ h = [i \in Invocations |-> Idle]
  /\ hd = HashIdle

NextLive == StepPair(1)

SpecLive == InitLive /\ [][NextLive]_vars /\ WF_vars(NextLive)

(***************************************************************************)
(* hashDocument as a process: the call with the await of the digest, the   *)
(* iterations of the loop, the return                                      *)
(***************************************************************************)
\* lines 3-8: hashDocument(query) is called and the digest resolves
HashCall ==
  /\ hd.pc = "idle"
  /\ \E q \in HashQueries, out \in Digests :
       hd' = [pc |-> "loop", query |-> q, out |-> out, i |-> 0, hash |-> <<>>]
  /\ UNCHANGED <<options, cfg, baseHeaders, h>>

\* lines 9-12: one iteration of the loop over the digest bytes
HashLoop ==
  /\ hd.pc = "loop"
  /\ hd.i < Len(hd.out)
  /\ LET hex == ToString16(hd.out[hd.i + 1]) IN
       hd' = [hd EXCEPT !.hash = @ \o Pad(hex) \o hex, !.i = @ + 1]
  /\ UNCHANGED <<options, cfg, baseHeaders, h>>

\* line 14: return hash
HashReturn ==
  /\ hd.pc = "loop"
  /\ hd.i >= Len(hd.out)
  /\ hd' = [hd EXCEPT !.pc = "returned"]
  /\ UNCHANGED <<options, cfg, baseHeaders, h>>

InitHash ==
  /\ options = Undefined
  /\ cfg = BaseConfig
  /\ baseHeaders = BaseHeadersOf(cfg)
  /\ h = [i \in Invocations |-> Idle]
  /\ hd = HashIdle

NextHash == HashCall \/ HashLoop \/ HashReturn

SpecHash == InitHash /\ [][NextHash]_vars

(***************************************************************************)
(* Properties                                                              *)
(***************************************************************************)
\* the value of key k in a response body, Undefined when the body lacks it
Field(body, k) ==
  IF \E j \in 1..Len(body.fields) : body.fields[j].k = k
    THEN body.fields[CHOOSE j \in 1..Len(body.fields) : body.fields[j].k = k].v
    ELSE Undefined

\* has invocation record r called strategy fn
HasCalled(r, fn) == \E j \in 1..Len(r.calls) : r.calls[j] = fn

\* the errors list carrying the one message msg, as the configured
\* formatError renders it
SingleError(msg) == Arr(<<formatError(cfg.formatError, Obj([message |-> S(msg)])).v>>)

\* the operations of document d that a request naming `name` would run:
\* the one with that name, or the only one when no name is given
WouldRun(d, name) ==
  IF IsNullish(name)
    THEN (IF Len(d.definitions) = 1 THEN {d.definitions[1]} ELSE {})
    ELSE {d.definitions[k] : k \in {j \in 1..Len(d.definitions) : d.definitions[j].name = name}}

\* C1: a response has status 200 if and only if its body carries a data
\* field that is present and not null.
C1_StatusSplit ==
  \A i \in Invocations :
    h[i].pc = "done" =>
      (h[i].response.status = 200 <=> Field(h[i].response.body, "data") \notin {Undefined, Null})

\* C2: no invocation of the handler ever rejects; each completes with a
\* response, whatever the strategies throw or return.
C2_NeverRejects ==
  \A i \in Invocations : h[i].pc # "rejected"

\* C3: every status is 200, 204, 400, 405 or 500; 204 only for a preflight,
\* 405 only from the method check or the mutation guard, 400 only from
\* parameter, query, syntax or validation failures, 500 only when execute
\* gave no data or a strategy threw.
C3_StatusCauses ==
  \A i \in Invocations :
    h[i].pc = "done" =>
      LET r == h[i]
          st == r.response.status
      IN /\ st \in {200, 204, 400, 405, 500}
         /\ st = 204 => r.request.method = "OPTIONS" /\ r.failedAt = "none" /\ r.calls = <<>>
         /\ st = 405 => r.failedAt \in {"methodCheck", "guard"}
         /\ st = 400 => r.failedAt \in {"parseParams", "queryCheck", "parse", "validate"}
         /\ st = 500 =>
              \/ r.failedAt = "none" /\ Field(r.response.body, "data") \in {Undefined, Null}
              \/ r.failedAt \in {"validate", "execute", "extensions", "respond"}

\* C4: a GET request whose document parsed and whose operation (the one
\* named by operationName, else the only one) is not a query never reaches
\* validate or execute, and its response is 405 with Allow: POST and the
\* single error "Can only perform a mutation operation from a POST request."
C4_GetMutationRejected ==
  \A i \in Invocations :
    LET r == h[i] IN
      (/\ r.pc # "idle"
       /\ r.request.method = "GET"
       /\ r.document # Undefined
       /\ \E op \in WouldRun(r.document, r.params.operationName) : op.operation # "query")
      => /\ ~HasCalled(r, "validate")
         /\ ~HasCalled(r, "execute")
         /\ r.pc = "done" =>
              /\ r.response.status = 405
              /\ "Allow" \in DOMAIN r.response.headers
              /\ r.response.headers["Allow"] = S("POST")
              /\ Field(r.response.body, "errors") =
                   SingleError("Can only perform a mutation operation from a POST request.")

\* is r a request the mutation guard must let through: a POST whose
\* operation is a mutation, or a GET that names a query of a document
\* which also holds a mutation
GuardMustPass(r) ==
  /\ r.pc # "idle"
  /\ r.document # Undefined
  /\ \/ /\ r.request.method = "POST"
        /\ \E op \in WouldRun(r.document, r.params.operationName) : op.operation = "mutation"
     \/ /\ r.request.method = "GET"
        /\ ~IsNullish(r.params.operationName)
        /\ \E op \in WouldRun(r.document, r.params.operationName) : op.operation = "query"
        /\ \E k \in 1..Len(r.document.definitions) : r.document.definitions[k].operation = "mutation"

C6_UnsupportedMethod ==
  \A i \in Invocations :
    LET r == h[i] IN
      (/\ r.pc # "idle"
       /\ r.request.method \notin {"GET", "POST"}
       /\ ~(r.request.method = "OPTIONS" /\ cfg.allowOrigins # Undefined))
      => /\ r.calls = <<>>
         /\ r.bodyReads = 0
         /\ r.pc = "done" =>
              /\ r.response.status = 405
              /\ "Allow" \in DOMAIN r.response.headers
              /\ r.response.headers["Allow"] = S("OPTIONS, GET, POST")
              /\ Field(r.response.body, "errors") =
                   SingleError("GraphQL only supports GET and POST requests.")

C6_Witness ==
  \E i \in Invocations :
    /\ h[i].pc = "done"
    /\ h[i].request.method = "PUT"
    /\ h[i].request.body = S("{\"query\":")
    /\ h[i].request.url.variables = BadJson
    /\ h[i].response.status = 405

\* C7: with a CORS origin configured an OPTIONS request goes from the call
\* straight to its response: status 204, an empty body and exactly the
\* headers Allow, Access-Control-Allow-Methods and
\* Access-Control-Allow-Origin; no parameter is resolved, no body read, no
\* strategy called.
C7_Preflight ==
  \A i \in Invocations :
    LET r == h[i] IN
      (/\ r.pc # "idle"
       /\ r.request.method = "OPTIONS"
       /\ cfg.allowOrigins # Undefined)
      => /\ r.pc \in {"called", "done"}
         /\ r.calls = <<>>
         /\ r.bodyReads = 0
         /\ r.params = NoFields
         /\ r.pc = "done" =>
              /\ r.response.status = 204
              /\ r.response.body = EmptyBody
              /\ DOMAIN r.response.headers =
                   {"Allow", "Access-Control-Allow-Methods", "Access-Control-Allow-Origin"}
              /\ r.response.headers["Allow"] = S("OPTIONS, GET, POST")
              /\ r.response.headers["Access-Control-Allow-Methods"] = S("OPTIONS, GET, POST")
              /\ r.response.headers["Access-Control-Allow-Origin"] = cfg.allowOrigins

C7_Witness ==
  \E i \in Invocations :
    /\ h[i].pc = "done"
    /\ h[i].request.method = "OPTIONS"
    /\ cfg.allowOrigins = S("*")
    /\ h[i].request.body # Null
    /\ h[i].response.status = 204

\* C8: a GET or POST request whose resolved query is absent or empty never
\* has the parse strategy called, and its response is 400 with the single
\* error "Must provide query string."
C8_QueryRequired ==
  \A i \in Invocations :
    LET r == h[i] IN
      (/\ r.pc \notin {"idle", "called", "methodCheck", "parseParams"}
       /\ r.request.method \in {"GET", "POST"}
       /\ r.failedAt # "parseParams"
       /\ r.params.query \in {Undefined, Null, S("")})
      => /\ ~HasCalled(r, "parse")
         /\ r.pc = "done" =>
              /\ r.response.status = 400
              /\ Field(r.response.body, "errors") = SingleError("Must provide query string.")

C8_Witness ==
  \E i \in Invocations :
    /\ h[i].pc = "done"
    /\ h[i].request.method = "POST"
    /\ h[i].request.contentType = S("application/graphql")
    /\ h[i].params.query = S("")
    /\ h[i].response.status = 400

\* C9: the contextValue given to execute is the per-call context whenever
\* one is passed, whatever its value, else the configured context whenever
\* one is configured, else the request.
C9_ContextPrecedence ==
  \A i \in Invocations :
    LET r == h[i] IN
      r.executeArgs # Undefined =>
        r.executeArgs.contextValue =
          (IF r.localContext # Undefined THEN r.localContext
           ELSE IF cfg.context # Undefined THEN cfg.context
           ELSE r.request)

\* is v a value a request supplies: neither missing nor null
Supplied(v) == v \notin {Undefined, Null}

\* the variables a supplied value stands for: a string is JSON text
Decoded(v) == IF v.t = "string" THEN JSONParse(v).v ELSE v

\* C10: parameters are merged field by field: a query, variables or
\* operationName supplied in the URL always wins over the one supplied in
\* the body, a field the URL lacks takes the body's value, and execute runs
\* the operation the URL names.
C10_UrlAlwaysWins ==
  \A i \in Invocations :
    LET r == h[i] IN
      (HasCalled(r, "parseParams") /\ r.failedAt # "parseParams") =>
        LET url == r.request.url
            body == FromBody(r.request).v
        IN /\ \A k \in {"query", "operationName"} :
                /\ (Supplied(url[k]) /\ Supplied(body[k])) => r.params[k] = url[k]
                /\ ~Supplied(url[k]) => r.params[k] = body[k]
           /\ (Supplied(url.variables) /\ Supplied(body.variables))
                => r.params.variables = Decoded(url.variables)
           /\ ~Supplied(url.variables) => r.params.variables = Decoded(body.variables)
           /\ (r.executeArgs # Undefined /\ Supplied(url.operationName) /\ Supplied(body.operationName))
                => r.executeArgs.operationName = url.operationName

\* C10 as amended: a non-empty query, variables or operationName in the URL
\* wins over the body's; a field that the URL lacks, or gives empty, takes
\* the body's value; execute runs the operation a non-empty URL
\* operationName names.
C10_NonEmptyUrlWins ==
  \A i \in Invocations :
    LET r == h[i] IN
      (HasCalled(r, "parseParams") /\ r.failedAt # "parseParams") =>
        LET url == r.request.url
            body == FromBody(r.request).v
        IN /\ \A k \in {"query", "operationName"} :
                r.params[k] = (IF Supplied(url[k]) /\ url[k] # S("") THEN url[k] ELSE body[k])
           /\ r.params.variables =
                (IF Supplied(url.variables) /\ url.variables # S("")
                   THEN Decoded(url.variables) ELSE Decoded(body.variables))
           /\ (r.executeArgs # Undefined /\ Supplied(url.operationName) /\ url.operationName # S(""))
                => r.executeArgs.operationName = url.operationName

C10_Witness ==
  \E i \in Invocations :
    /\ h[i].pc = "done"
    /\ h[i].request.method = "POST"
    /\ h[i].request.url.operationName = S("A")
    /\ FromBody(h[i].request).ok
    /\ FromBody(h[i].request).v.operationName = S("B")
    /\ FromBody(h[i].request).v.query = QMutation
    /\ h[i].request.url.query = QMulti
    /\ h[i].executeArgs # Undefined
    /\ h[i].executeArgs.operationName = S("A")
    /\ h[i].response.status = 200

\* the content types whose body parseParams reads
RecognizedTypes ==
  {S("application/json"), S("application/x-www-form-urlencoded"), S("application/graphql")}

\* can the URL's variables be resolved: there are none, or they are JSON text
UrlVariablesDecodable(url) == url.variables \in {Null, S("")} \/ url.variables.enc = "json"

\* C11: for a POST request whose Content-Type is missing or not one of the
\* three recognized types the body contributes nothing: parameter
\* resolution does not fail on it, the resolved parameters are those the
\* URL supplies, a query in the URL goes on to parse, and without a query in
\* the URL the response is 400 with the single error "Must provide query
\* string."
C11_UnrecognizedBodyIgnored ==
  \A i \in Invocations :
    LET r == h[i]
        url == r.request.url
    IN (/\ HasCalled(r, "parseParams")
        /\ r.request.method = "POST"
        /\ r.request.contentType \notin RecognizedTypes
        /\ UrlVariablesDecodable(url))
       => /\ r.failedAt # "parseParams"
          /\ \A k \in {"query", "operationName"} :
               r.params[k] = (IF url[k] \in {Null, S("")} THEN Undefined ELSE url[k])
          /\ r.params.variables =
               (IF url.variables \in {Null, S("")} THEN Undefined ELSE url.variables.v)
          /\ (r.pc \in {"done", "rejected"} /\ url.query \notin {Null, S("")}) => HasCalled(r, "parse")
          /\ (r.pc = "done" /\ url.query \in {Null, S("")}) =>
               /\ r.response.status = 400
               /\ Field(r.response.body, "errors") = SingleError("Must provide query string.")

\* is v a string JSON.parse rejects
NotJson(v) == v.t = "string" /\ v.enc # "json"

\* does req carry parameters that cannot be decoded: variables in the URL
\* that are not JSON, a JSON body that is not JSON, form-encoded variables
\* that are not JSON, or a JSON body whose variables are a string that is
\* not JSON (and that the URL does not override)
ParamsUndecodable(req) ==
  \/ req.url.variables # Null /\ req.url.variables # S("") /\ NotJson(req.url.variables)
  \/ /\ req.method = "POST"
     /\ \/ /\ req.contentType = S("application/json")
           /\ \/ req.body = Null
              \/ NotJson(req.body)
              \/ /\ req.url.variables \in {Null, S("")}
                 /\ req.body.v.t = "object"
                 /\ "variables" \in DOMAIN req.body.v.props
                 /\ NotJson(req.body.v.props.variables)
        \/ /\ req.contentType = S("application/x-www-form-urlencoded")
           /\ req.body # Null
           /\ req.body.enc = "form"
           /\ \/ req.body.variables # S("") /\ NotJson(req.body.variables)
              \/ req.body.variables = S("") /\ req.url.variables \in {Null, S("")}

\* C12: a GET or POST request whose parameters cannot be decoded fails in
\* parameter resolution: parse, validate and execute are never called, and
\* the response is 400 with exactly one error, also when the URL carries a
\* valid query.
C12_ParamFailure400 ==
  \A i \in Invocations :
    LET r == h[i] IN
      (/\ HasCalled(r, "parseParams")
       /\ ParamsUndecodable(r.request))
      => /\ r.failedAt = "parseParams"
         /\ ~HasCalled(r, "parse")
         /\ ~HasCalled(r, "validate")
         /\ ~HasCalled(r, "execute")
         /\ r.pc = "done" =>
              /\ r.response.status = 400
              /\ Field(r.response.body, "errors").t = "array"
              /\ Len(Field(r.response.body, "errors").items) = 1

C12_Witness ==
  \E i \in Invocations :
    /\ h[i].pc = "done"
    /\ h[i].request.method = "POST"
    /\ h[i].request.contentType = S("application/json")
    /\ h[i].request.body = S("{\"query\":")
    /\ h[i].request.url.query = QTest
    /\ h[i].response.status = 400
    /\ Len(Field(h[i].response.body, "errors").items) = 1

\* does req carry the variables v through exactly one channel: the URL of a
\* GET request, or the body of a POST request
CarriesVariables(req, v) ==
  \/ req.method = "GET" /\ req.url.variables = JsonText(v)
  \/ /\ req.url.variables = Null
     /\ req.method = "POST"
     /\ req.body # Null
     /\ \/ /\ req.contentType = S("application/json")
           /\ req.body.enc = "json"
           /\ req.body.v.t = "object"
           /\ "variables" \in DOMAIN req.body.v.props
           /\ req.body.v.props.variables \in {v, JsonText(v)}
        \/ /\ req.contentType = S("application/x-www-form-urlencoded")
           /\ req.body.enc = "form"
           /\ req.body.variables = JsonText(v)

\* C13: whatever value v a request carries as variables, encoded in the URL,
\* encoded as a string in a JSON or form body, or as it is in a JSON body,
\* parameter resolution succeeds and the resolved variables are v.
C13_RoundTripAny ==
  \A i \in Invocations :
    LET r == h[i] IN
      HasCalled(r, "parseParams") =>
        \A v \in RoundTripValues :
          CarriesVariables(r.request, v) =>
            /\ r.failedAt # "parseParams"
            /\ r.params.variables = v

\* C13 as amended: the same for every value v that is not a string.
C13_RoundTripNonString ==
  \A i \in Invocations :
    LET r == h[i] IN
      HasCalled(r, "parseParams") =>
        \A v \in {w \in RoundTripValues : w.t # "string"} :
          CarriesVariables(r.request, v) =>
            /\ r.failedAt # "parseParams"
            /\ r.params.variables = v

C13_Witness ==
  \E i \in Invocations :
    /\ h[i].pc = "done"
    /\ h[i].request.contentType = S("application/x-www-form-urlencoded")
    /\ CarriesVariables(h[i].request, UrlVars)
    /\ h[i].params.variables = UrlVars
    /\ HasCalled(h[i], "execute")
    /\ h[i].response.status = 200

\* C14: whenever the parse strategy throws, whatever the value, neither
\* validate nor execute is called and the invocation ends with a response
\* of status 400 whose errors list holds exactly the formatted thrown value
\* (stated for the formatters that are meant to return).
C14_ParseThrow400 ==
  \A i \in Invocations :
    LET r == h[i] IN
      (r.failedAt = "parse" /\ cfg.formatError # Fn("throwing")) =>
        /\ ~HasCalled(r, "validate")
        /\ ~HasCalled(r, "execute")
        /\ r.pc # "rejected"
        /\ r.pc = "done" =>
             /\ r.response.status = 400
             /\ Field(r.response.body, "errors") =
                  Arr(<<formatError(cfg.formatError, Get(r.caught, "error").items[1]).v>>)

\* C15: when validate has returned a non-empty error sequence, execute and
\* extensions are never called for that request, and the response is 400
\* with exactly those errors, each formatted, in the same order.
C15_ValidationErrors400 ==
  \A i \in Invocations :
    LET r == h[i]
        errs == r.validationErrors
    IN (errs.t = "array" /\ Len(errs.items) > 0) =>
         /\ ~HasCalled(r, "execute")
         /\ ~HasCalled(r, "extensions")
         /\ r.pc = "done" =>
              /\ r.response.status = 400
              /\ Field(r.response.body, "errors") =
                   Arr([k \in 1..Len(errs.items) |-> formatError(cfg.formatError, errs.items[k]).v])

C15_Witness ==
  \E i \in Invocations :
    /\ h[i].pc = "done"
    /\ cfg.validate = Fn("gqlValidate")
    /\ h[i].document = DocUnknown
    /\ Len(h[i].validationErrors.items) >= 2
    /\ Len(Field(h[i].response.body, "errors").items) = Len(h[i].validationErrors.items)
    /\ h[i].response.status = 400

\* C16: a handler built by the lean createRequestHandler without a
\* customValidateFn never calls validate, whatever validationRules it was
\* given: a request whose document parsed and which the GET guard lets
\* through has execute as the call that follows parse.
C16_LeanNeverValidates ==
  \A i \in Invocations :
    LET r == h[i] IN
      (options = Undefined /\ cfg.validate = Undefined) =>
        /\ ~HasCalled(r, "validate")
        /\ r.validateArgs = Undefined
        /\ r.failedAt # "validate"
        /\ (r.pc \in {"done", "rejected"} /\ r.document # Undefined /\ r.failedAt # "guard") =>
             /\ Len(r.calls) >= 3
             /\ r.calls[2] = "parse"
             /\ r.calls[3] = "execute"

C16_Witness ==
  \E i \in Invocations :
    /\ h[i].pc = "done"
    /\ options = Undefined
    /\ cfg.validate = Undefined
    /\ cfg.validationRules = Arr(<<AlwaysInvalidRule>>)
    /\ h[i].document = DocUnknown
    /\ HasCalled(h[i], "execute")
    /\ h[i].response.status = 200

\* the response the lean handler built from options c gives to an
\* invocation whose strategies returned and threw what r records
LeanResponse(c, r) ==
  IF r.failedAt = "none"
    THEN SuccessResponse(c, BaseHeadersOf(c), r.result, r.extensionsResult)
    ELSE FailureResponse(c, BaseHeadersOf(c), r.caught)

\* C17: a handler built by the full createRequestHandler is the lean handler
\* given the same options, the engine's validate unless the caller gave one,
\* and the rules of the GraphQL specification followed by the caller's
\* rules.  validate is called with both sets of rules, and the engine's
\* validate reports the errors of both; when validation returns no error
\* the request is executed and answered as the lean handler built from the
\* caller's options executes and answers it.
C17_FullIsLeanPlusValidate ==
  options # Undefined =>
    /\ cfg.validate = (IF options.validate = Undefined THEN Fn("gqlValidate") ELSE options.validate)
    /\ cfg.validationRules = Arr(specifiedRules \o options.validationRules.items)
    /\ \A k \in DOMAIN options \ {"validate", "validationRules"} : cfg[k] = options[k]
    /\ baseHeaders = BaseHeadersOf(options)
    /\ \A i \in Invocations :
         LET r == h[i] IN
           /\ r.validateArgs # Undefined =>
                /\ r.validateArgs.document = r.document
                /\ r.validateArgs.validationRules = Arr(specifiedRules \o options.validationRules.items)
           /\ (cfg.validate = Fn("gqlValidate") /\ r.validationErrors # Undefined) =>
                Len(r.validationErrors.items) =
                  r.document.unknownFields + Len(options.validationRules.items)
           /\ (r.validationErrors = Arr(<<>>) /\ r.pc \in {"done", "rejected"}) =>
                /\ HasCalled(r, "execute")
                /\ r.executeArgs =
                     [document |-> r.document,
                      variableValues |-> r.params.variables,
                      operationName |-> r.params.operationName,
                      contextValue |-> ContextValue(r.localContext, options.context, r.request)]
                /\ r.pc = "done" => r.response = LeanResponse(options, r).v

\* the full handler with a rule of the caller's refuses a document for the
\* fields the schema lacks and for the caller's rule
C17_Witness ==
  \E i \in Invocations :
    /\ h[i].pc = "done"
    /\ options # Undefined
    /\ options.validate = Undefined
    /\ options.validationRules = Arr(<<AlwaysInvalidRule>>)
    /\ h[i].document = DocUnknown
    /\ Len(h[i].validationErrors.items) = DocUnknown.unknownFields + 1
    /\ h[i].response.status = 400

\* C18: whenever the execute strategy throws, whatever the value, the
\* invocation ends with a response of status 500 whose body has no data
\* and an errors list holding exactly the formatted thrown value (stated
\* for the formatters that are meant to return).
C18_ExecuteThrow500 ==
  \A i \in Invocations :
    LET r == h[i] IN
      (r.failedAt = "execute" /\ cfg.formatError # Fn("throwing")) =>
        /\ r.pc # "rejected"
        /\ r.pc = "done" =>
             /\ r.response.status = 500
             /\ Field(r.response.body, "data") = Undefined
             /\ Field(r.response.body, "errors") =
                  Arr(<<formatError(cfg.formatError, r.caught).v>>)

\* C19: in the response to a result of execute, when the extensions
\* function was called, the body has an extensions field exactly when the
\* function's resolved value is an object, and the field is that value.
C19_ExtensionsOnlyObject ==
  \A i \in Invocations :
    LET r == h[i] IN
      (HasCalled(r, "extensions") /\ r.pc = "done" /\ r.failedAt = "none") =>
        Field(r.response.body, "extensions") =
          (IF r.extensionsResult.t = "object" THEN r.extensionsResult ELSE Undefined)

\* C20: in the response to a result of execute the body has an errors key
\* exactly when the result has errors, and its value is those errors, each
\* formatted, in the same order; it has a data key exactly when the result
\* has data, a null data included, with the same value; and a result that
\* carries a data mapping together with errors gets status 200 and both
\* keys.
C20_EnvelopeKeys ==
  \A i \in Invocations :
    LET r == h[i]
        errors == Get(r.result, "errors")
        data == Get(r.result, "data")
    IN (r.pc = "done" /\ r.failedAt = "none") =>
         /\ Field(r.response.body, "errors") # Undefined <=> errors # Undefined
         /\ errors.t = "array" =>
              Field(r.response.body, "errors") =
                Arr([k \in 1..Len(errors.items) |-> formatError(cfg.formatError, errors.items[k]).v])
         /\ Field(r.response.body, "data") = data
         /\ (data.t = "object" /\ errors.t = "array") =>
              /\ r.response.status = 200
              /\ Field(r.response.body, "data") # Undefined
              /\ Field(r.response.body, "errors") # Undefined

C20_Witness ==
  \E i \in Invocations :
    /\ h[i].pc = "done"
    /\ h[i].failedAt = "none"
    /\ Get(h[i].result, "data").t = "object"
    /\ Get(h[i].result, "errors") = FieldErrors(2)
    /\ Len(Field(h[i].response.body, "errors").items) = 2
    /\ Field(h[i].response.body, "data") = Get(h[i].result, "data")
    /\ h[i].response.status = 200

\* the one error execute reports when it cannot choose an operation
MultipleOperations == "Must provide operation name if query contains multiple operations."

\* C21: a GET request whose document holds several operations and that
\* names none is not rejected by the mutation guard, even when one of the
\* operations is a mutation; unless validation stops it, it reaches
\* execute, and the engine's execute answers it with status 500, the single
\* error "Must provide operation name if query contains multiple
\* operations." and no data.
C21_NoOperationName500 ==
  \A i \in Invocations :
    LET r == h[i] IN
      (/\ r.pc # "idle"
       /\ r.request.method = "GET"
       /\ r.document # Undefined
       /\ Len(r.document.definitions) > 1
       /\ IsNullish(r.params.operationName))
      => /\ r.failedAt # "guard"
         /\ (r.pc \in {"done", "rejected"} /\ r.failedAt # "validate") => HasCalled(r, "execute")
         /\ (r.pc = "done" /\ cfg.execute = Fn("gqlExecute") /\ r.failedAt = "none") =>
              /\ r.response.status = 500
              /\ Field(r.response.body, "errors") = SingleError(MultipleOperations)
              /\ Field(r.response.body, "data") = Undefined

C21_Witness ==
  \E i \in Invocations :
    /\ h[i].pc = "done"
    /\ h[i].request.method = "GET"
    /\ h[i].document = DocMulti
    /\ h[i].params.operationName = Undefined
    /\ HasCalled(h[i], "execute")
    /\ h[i].response.status = 500
    /\ Field(h[i].response.body, "errors") = SingleError(MultipleOperations)

\* is r a GET request without variables whose query parsed to one query
\* operation, which it leaves unnamed, handled by the handler built with
\* no options
SingleQueryOverGet(r) ==
  /\ r.pc # "idle"
  /\ r.request.method = "GET"
  /\ r.document # Undefined
  /\ Len(r.document.definitions) = 1
  /\ r.document.definitions[1].operation = "query"
  /\ r.params.variables = Undefined
  /\ IsNullish(r.params.operationName)
  /\ options = Undefined
  /\ cfg = BaseConfig

IsPreflightResponse(r) == r.response.status = 204 /\ r.request.method = "OPTIONS" /\ r.calls = <<>>

\* C23: every response but the preflight's has Content-Type:
\* application/json; a response has Access-Control-Allow-Origin exactly when
\* a CORS origin is configured, and its value is that origin.
C23_BaseHeadersEverywhere ==
  \A i \in Invocations :
    LET r == h[i] IN
      r.pc = "done" =>
        /\ ~IsPreflightResponse(r) =>
             /\ "Content-Type" \in DOMAIN r.response.headers
             /\ r.response.headers["Content-Type"] = S("application/json")
        /\ "Access-Control-Allow-Origin" \in DOMAIN r.response.headers <=> cfg.allowOrigins # Undefined
        /\ cfg.allowOrigins # Undefined =>
             r.response.headers["Access-Control-Allow-Origin"] = cfg.allowOrigins

\* the errors a stage of invocation r produced, before formatting: those in
\* the result of execute, or the payload of the failure (its items when it
\* is a list, a scalar payload wrapped as {message: payload})
OriginalErrors(r) ==
  IF r.failedAt = "none" THEN Get(r.result, "errors").items
  ELSE LET thrown == r.caught
           payload == IF Truthy(Get(thrown, "error")) THEN Get(thrown, "error") ELSE thrown
       IN CASE payload.t = "array" -> payload.items
            [] payload.t = "object" -> <<payload>>
            [] OTHER -> <<Obj([message |-> payload])>>

\* C24: the errors list of every response body is the list of original
\* errors of the stage that produced them, each given to the configured
\* formatError exactly once and replaced by what it returns, order and count
\* preserved; a string payload is wrapped as {message: payload} first, and
\* validation errors are the list validate returned.
C24_FormatErrorOnce ==
  \A i \in Invocations :
    LET r == h[i]
        errors == Field(r.response.body, "errors")
    IN r.pc = "done" =>
         IF errors.t = "array"
           THEN LET orig == OriginalErrors(r) IN
                  /\ Len(errors.items) = Len(orig)
                  /\ \A k \in 1..Len(orig) :
                       /\ formatError(cfg.formatError, orig[k]).ok
                       /\ errors.items[k] = formatError(cfg.formatError, orig[k]).v
                  /\ r.formatCalls = orig
                  /\ (r.failedAt = "validate" /\ r.validationErrors # Undefined)
                       => orig = r.validationErrors.items
           ELSE r.formatCalls = <<>>

\* C24 witness: a response whose two validation errors were each formatted
\* once by a custom formatError
C24_Witness ==
  /\ h[1].pc = "done"
  /\ cfg.formatError = Fn("elaborate")
  /\ h[1].failedAt = "validate"
  /\ Len(h[1].formatCalls) = 2
  /\ Len(Field(h[1].response.body, "errors").items) = 2

\* the response invocation record r gets from a handler with options c that
\* serves nothing else: built from r's own request, context and strategy
\* outcomes and from the base headers as they were at construction
AloneResponse(c, r) ==
  IF IsPreflight(r.request.method, c.allowOrigins)
    THEN Response(EmptyBody, 204, PreflightHeaders(c.allowOrigins))
    ELSE LeanResponse(c, r).v

\* what an invocation record holds is derived from its own request alone
OwnState(c, r) ==
  /\ (HasCalled(r, "parseParams") /\ r.failedAt # "parseParams") => r.params = parseParams(r.request).v
  /\ r.executeArgs # Undefined =>
       r.executeArgs = [document |-> r.document,
                        variableValues |-> r.params.variables,
                        operationName |-> r.params.operationName,
                        contextValue |-> ContextValue(r.localContext, c.context, r.request)]
  /\ r.pc = "done" => r.response = AloneResponse(c, r)

\* C25: two invocations of one handler interleaved at will: each is
\* answered as it would be alone, and no step of an invocation changes the
\* handler's options, its base headers or the other invocation's state.
C25_InvocationsIndependent ==
  /\ [](/\ baseHeaders = BaseHeadersOf(cfg)
        /\ \A i \in Invocations : OwnState(cfg, h[i]))
  /\ [][/\ UNCHANGED <<options, cfg, baseHeaders, hd>>
        /\ \E i \in Invocations : h'[Other(i)] = h[Other(i)]]_vars

\* C25 witness: invocation 2 was called while invocation 1 was waiting for
\* execute; 2 was refused with 405 and Allow: POST, 1 was answered 200
\* with the base headers alone
C25_Witness ==
  /\ h[1].pc = "done" /\ h[2].pc = "done"
  /\ h[1].arrivedAt = "apart"
  /\ h[2].arrivedAt = "execute"
  /\ h[2].response.status = 405
  /\ "Allow" \in DOMAIN h[2].response.headers
  /\ h[1].response.status = 200
  /\ h[1].response.headers = BaseHeadersOf(cfg)

\* the position of a point of the handler in its text
PcRank(pc) ==
  CASE pc = "idle" -> 0
    [] pc = "called" -> 1
    [] pc = "methodCheck" -> 2
    [] pc = "parseParams" -> 3
    [] pc = "queryCheck" -> 4
    [] pc = "parse" -> 5
    [] pc = "guard" -> 6
    [] pc = "validate" -> 7
    [] pc = "execute" -> 8
    [] pc = "extensions" -> 9
    [] pc = "respond" -> 10
    [] pc = "catch" -> 11
    [] OTHER -> 12

\* the stages invocation r has run are in pipeline order, each once, each
\* with the results of the stages before it, and none after a failure
StagesInOrder(r) ==
  /\ \A j, k \in 1..Len(r.calls) : j < k => PcRank(r.calls[j]) < PcRank(r.calls[k])
  /\ (HasCalled(r, "validate") \/ HasCalled(r, "execute")) =>
       /\ HasCalled(r, "parse")
       /\ r.document # Undefined
       /\ ~IsMutationOverGet(r.request.method, r.document, r.params.operationName)
  /\ HasCalled(r, "validate") => r.validateArgs.document = r.document
  /\ (HasCalled(r, "execute") /\ ValidateConfigured(cfg.validate)) =>
       /\ HasCalled(r, "validate")
       /\ r.validationErrors = Arr(<<>>)
  /\ HasCalled(r, "execute") => r.executeArgs.document = r.document
  /\ HasCalled(r, "extensions") =>
       /\ HasCalled(r, "execute")
       /\ r.failedAt \notin {"execute", "validate", "guard", "parse"}
       /\ r.extensionsArgs.result = r.result
  /\ r.failedAt # "none" =>
       /\ \A k \in 1..Len(r.calls) : PcRank(r.calls[k]) <= PcRank(r.failedAt)
       /\ r.pc = "done" => r.response = FailureResponse(cfg, baseHeaders, r.caught).v

\* C26: within one request the stages run in the order parse, GET guard,
\* validate, execute, extensions, each at most once and each after the one
\* before it has completed; when a stage fails no later stage runs and the
\* response is the one of that failure.
C26_StagesSequential ==
  /\ [](\A i \in Invocations : StagesInOrder(h[i]))
  /\ [][\A i \in Invocations : h'[i] # h[i] => PcRank(h'[i].pc) > PcRank(h[i].pc)]_vars

\* C26 witness: a request that went through every stage, and was answered
C26_Witness ==
  /\ h[1].pc = "done"
  /\ h[1].calls = <<"parseParams", "parse", "validate", "execute", "extensions">>
  /\ h[1].failedAt = "none"

\* C27: a failure is answered with its own status, or 500 when it has none;
\* with the base headers and the failure's headers, the failure's value on
\* a key both have; and with an errors list of one element for a payload
\* that is no list, of as many elements as the payload for one that is.
C27_FailureResponseShape ==
  \A i \in Invocations :
    LET r == h[i]
        failure == r.caught
        extra == Get(failure, "headers")
        payload == IF Truthy(Get(failure, "error")) THEN Get(failure, "error") ELSE failure
        errors == Field(r.response.body, "errors")
    IN (r.pc = "done" /\ r.failedAt # "none") =>
         /\ r.response.status = (IF Get(failure, "status") = Undefined THEN 500
                                 ELSE Get(failure, "status").n)
         /\ DOMAIN r.response.headers =
              DOMAIN baseHeaders \cup (IF extra = Undefined THEN {} ELSE DOMAIN extra.props)
         /\ \A k \in DOMAIN r.response.headers :
              r.response.headers[k] =
                (IF extra # Undefined /\ k \in DOMAIN extra.props THEN extra.props[k]
                 ELSE baseHeaders[k])
         /\ errors.t = "array"
         /\ Len(errors.items) = (IF payload.t = "array" THEN Len(payload.items) ELSE 1)
         /\ DOMAIN r.response.body.fields = 1..1

\* C27 witness: a failure without status whose headers set Content-Type
\* anew: answered 500, with the failure's Content-Type
C27_Witness ==
  /\ h[1].pc = "done"
  /\ h[1].caught = ThrownWithHeaders
  /\ h[1].response.status = 500
  /\ h[1].response.headers["Content-Type"] = S("text/plain")
  /\ baseHeaders["Content-Type"] = S("application/json")
  /\ Len(Field(h[1].response.body, "errors").items) = 1

\* C28: a response has an Allow header exactly when its status is 405 or
\* it answers a preflight; a request refused for its method has Allow:
\* OPTIONS, GET, POST, a mutation refused over GET has Allow: POST, and the
\* two carry different messages.
C28_AllowOnlyOn405AndPreflight ==
  \A i \in Invocations :
    LET r == h[i] IN
      r.pc = "done" =>
        /\ "Allow" \in DOMAIN r.response.headers
             <=> (r.response.status = 405 \/ IsPreflightResponse(r))
        /\ r.failedAt = "methodCheck" =>
             /\ r.response.status = 405
             /\ r.response.headers["Allow"] = S("OPTIONS, GET, POST")
             /\ Field(r.response.body, "errors")
                  = SingleError("GraphQL only supports GET and POST requests.")
        /\ r.failedAt = "guard" =>
             /\ r.response.status = 405
             /\ r.response.headers["Allow"] = S("POST")
             /\ Field(r.response.body, "errors")
                  = SingleError("Can only perform a mutation operation from a POST request.")

\* C29: extensions is called with document, variables, operationName,
\* result and context: the context is the one of the handler's options,
\* whatever execute was given as contextValue; the document is the one
\* execute was given; the result is what execute returned, unformatted.
C29_ExtensionsArguments ==
  \A i \in Invocations :
    LET r == h[i] IN
      HasCalled(r, "extensions") =>
        /\ DOMAIN r.extensionsArgs = {"document", "variables", "operationName", "result", "context"}
        /\ r.extensionsArgs.context = cfg.context
        /\ r.extensionsArgs.document = r.executeArgs.document
        /\ r.extensionsArgs.document = r.document
        /\ r.extensionsArgs.variables = r.params.variables
        /\ r.extensionsArgs.operationName = r.params.operationName
        /\ r.extensionsArgs.result = r.result

\* C29 witness: execute ran with the per-call context and reported field
\* errors; extensions got the context of the options and the raw errors
C29_Witness ==
  /\ HasCalled(h[1], "extensions")
  /\ h[1].executeArgs.contextValue = CallContext
  /\ cfg.context = ConfigContext
  /\ h[1].extensionsArgs.context = ConfigContext
  /\ Get(h[1].extensionsArgs.result, "errors") = FieldErrors(1)

\* the handler built from the options of c with the pretty flag the other
\* way round
PrettyTwin(c) == [c EXCEPT !.pretty = ~c.pretty]

\* C30: the handler that differs in the pretty flag alone answers the same
\* request, with the same strategy outcomes, with the same status, the same
\* headers and the same envelope (keys, order, values); the two bodies
\* differ in indentation only, 2 when pretty and 0 when not, on success and
\* on failure alike.
C30_PrettyOnlyIndents ==
  \A i \in Invocations :
    LET r == h[i]
        twin == AloneResponse(PrettyTwin(cfg), r)
    IN r.pc = "done" =>
         /\ twin.status = r.response.status
         /\ twin.headers = r.response.headers
         /\ twin.body.kind = r.response.body.kind
         /\ twin.body.fields = r.response.body.fields
         /\ r.response.body.kind = "json" =>
              /\ r.response.body.indent = (IF cfg.pretty THEN 2 ELSE 0)
              /\ twin.body.indent = (IF cfg.pretty THEN 0 ELSE 2)

\* C30 witness: a pretty-printed failure body with data absent, and the
\* errors it carries
C30_Witness ==
  /\ h[1].pc = "done"
  /\ cfg.pretty
  /\ h[1].failedAt = "queryCheck"
  /\ h[1].response.body.indent = 2
  /\ AloneResponse(PrettyTwin(cfg), h[1]).body.indent = 0
  /\ Field(h[1].response.body, "errors") = SingleError("Must provide query string.")

\* C31: when the body read and every strategy call come back, an
\* invocation that was called ends with a response delivered; no step
\* takes it back to a point it has left, and a delivered response stays.
C31_EventuallyOneResponse ==
  /\ (h[1].pc = "called") ~> (h[1].pc = "done")
  /\ [][/\ h'[1] # h[1] => PcRank(h'[1].pc) > PcRank(h[1].pc)
        /\ h[1].pc = "done" => h'[1] = h[1]]_vars

\* C32: on a GET request the engine's execute never runs a mutation or a
\* subscription: when it is called it selects a query or no operation, and
\* the data it returns is not a mutation's, whatever the document and the
\* operation name.
C32_GetNeverMutates ==
  \A i \in Invocations :
    LET r == h[i]
        op == ExecuteOperation(r.executeArgs.document, r.executeArgs.operationName)
    IN (r.request # Undefined /\ r.request.method = "GET" /\ cfg.execute = Fn("gqlExecute")
          /\ HasCalled(r, "execute")) =>
         /\ op = Null \/ op.operation = "query"
         /\ Get(Get(r.result, "data"), "writeTest") = Undefined

\* C33: a configured extensions function is called once when execute
\* returned and not at all when the request failed before; its value is in
\* the body of a 500 response to a result without data as well; when it
\* throws, the response is a 500 failure without data.
C33_ExtensionsOnceAfterExecute ==
  \A i \in Invocations :
    LET r == h[i]
        times == Len(SelectSeq(r.calls, LAMBDA fn : fn = "extensions"))
    IN (Truthy(cfg.extensions) /\ r.pc \in {"done", "rejected"}) =>
         /\ times = (IF HasCalled(r, "execute") /\ r.failedAt # "execute" THEN 1 ELSE 0)
         /\ (r.pc = "done" /\ r.failedAt = "none" /\ r.response.status = 500
               /\ r.extensionsResult # Undefined) =>
              /\ HasCalled(r, "extensions")
              /\ Field(r.response.body, "extensions") = r.extensionsResult
         /\ (r.failedAt = "extensions") =>
              /\ r.pc = "done"
              /\ r.response.status = 500
              /\ Field(r.response.body, "data") = Undefined
              /\ Field(r.response.body, "errors").t = "array"

\* C34: the body of a request is read at most once, and only for a POST
\* request whose Content-Type is application/json,
\* application/x-www-form-urlencoded or application/graphql; the parameters
\* of a GET request are those of its URL whatever its Content-Type and
\* body, its response is built from them alone, and the request the
\* handler was given is never changed.
C34_BodyReadOnlyForPost ==
  /\ [](\A i \in Invocations :
          LET r == h[i] IN
            /\ r.bodyReads <= 1
            /\ r.bodyReads = 1 =>
                 /\ r.request.method = "POST"
                 /\ r.request.contentType \in RecognizedTypes
            /\ (r.pc # "idle" /\ r.request.method = "GET") =>
                 /\ r.bodyReads = 0
                 /\ r.pc = "called" =>
                      \A ct \in ContentTypes, b \in Bodies :
                        parseParams([r.request EXCEPT !.contentType = ct, !.body = b])
                          = parseParams(r.request)
                 /\ HasCalled(r, "parseParams") =>
                      /\ r.failedAt # "parseParams" => r.params = parseParams(r.request).v
                      /\ r.failedAt = "parseParams" => r.caught = parseParams(r.request).v
                 /\ r.pc = "done" => r.response = AloneResponse(cfg, r))
  /\ [][\A i \in Invocations : h[i].pc # "idle" => h'[i].request = h[i].request]_vars

\* C34 witness: a GET request with Content-Type application/json, answered
\* 200 from its URL without a body read
C34_Witness ==
  /\ h[1].pc = "done"
  /\ h[1].request.method = "GET"
  /\ h[1].request.contentType = S("application/json")
  /\ h[1].bodyReads = 0
  /\ h[1].params.query = QTest
  /\ h[1].response.status = 200

\* the value of a lowercase hexadecimal character, -1 for any other
HexValue(c) ==
  IF \E d \in 1..16 : HexDigits[d] = c THEN (CHOOSE d \in 1..16 : HexDigits[d] = c) - 1 ELSE -1

\* C35: hashDocument returns 64 lowercase hexadecimal characters, of which
\* characters 2i and 2i+1 are byte i of the digest in base 16, padded with
\* a zero to two characters, so that the bytes can be read back.
C35_HexOfDigest ==
  hd.pc = "returned" =>
    /\ Len(hd.hash) = 2 * DigestLen
    /\ \A k \in 1..Len(hd.hash) : HexValue(hd.hash[k]) >= 0
    /\ \A j \in 0..(DigestLen - 1) :
         16 * HexValue(hd.hash[2 * j + 1]) + HexValue(hd.hash[2 * j + 2]) = hd.out[j + 1]
    /\ \A j \in 0..(DigestLen - 1) : hd.out[j + 1] < 16 => hd.hash[2 * j + 1] = "0"

\* C35 witness: a hash returned for a digest with a byte below 16 and a byte
\* from 16 on
C35_Witness ==
  /\ hd.pc = "returned"
  /\ \E j \in 1..DigestLen : hd.out[j] < 16 /\ hd.out[j] > 0
  /\ \E j \in 1..DigestLen : hd.out[j] >= 16
  /\ Len(hd.hash) = 64

====
